---- MODULE Spec2Model ----
(***************************************************************************)
(* Matrices of algebraic integers over one cyclotomic field, as in         *)
(* coxeter/matrix.py: the Matrix class (constructor, item access,          *)
(* multiplication, identity test) and the two builders cartan_matrix and   *)
(* reflection_matrix.                                                      *)
(*                                                                         *)
(* Indices are 0-based in the Python source and 1-based in the sequences   *)
(* below: grid entry M[i][j] of the source is G[i + 1][j + 1] here.  The   *)
(* arguments of the operations (the reflection index k) keep the source's  *)
(* 0-based values.                                                         *)
(***************************************************************************)
EXTENDS Integers, Sequences, FiniteSets, TLC

(***************************************************************************)
(* State.                                                                  *)
(*   grids  the arrays on the heap: grids[g] is a sequence of rows         *)
(*   mats   the Matrix objects built so far; mats[x].M is the index in     *)
(*          grids of the array the object refers to (self.M), and          *)
(*          mats[x].how records the call that built it                     *)
(*   last   the last call: its arguments and what it returned or raised    *)
(***************************************************************************)

VARIABLES grids, mats, last

vars == <<grids, mats, last>>

(***************************************************************************)
(* Integer helpers: integers.lcm.                                          *)
(***************************************************************************)
Abs(n) == IF n < 0 THEN -n ELSE n

RECURSIVE Gcd(_, _)
Gcd(a, b) == IF b = 0 THEN Abs(a) ELSE Gcd(b, a % Abs(b))

\* lcm(a, b); a zero argument has only the common multiple 0
Lcm(a, b) == IF a = 0 \/ b = 0 THEN 0 ELSE Abs(a * b) \div Gcd(a, b)

(***************************************************************************)
(* Integer polynomials: a sequence of coefficients, p[i] the coefficient   *)
(* of x^(i-1).                                                             *)
(***************************************************************************)
\* the sequence s with every element evaluated
Tuple(s) == SubSeq(s, 1, Len(s))

RECURSIVE SumSeq(_)
SumSeq(s) == IF s = <<>> THEN 0 ELSE Head(s) + SumSeq(Tail(s))

Coef(p, i) == IF i \in 1..Len(p) THEN p[i] ELSE 0

PolyMul(p, q) ==
    IF p = <<>> \/ q = <<>> THEN <<>>
    ELSE Tuple([n \in 1..(Len(p) + Len(q) - 1) |->
                  SumSeq([i \in 1..Len(p) |-> p[i] * Coef(q, n - i + 1)])])

\* quotient of p by the monic polynomial d
RECURSIVE PolyQuo(_, _)
PolyQuo(p, d) ==
    IF Len(p) < Len(d) THEN <<>>
    ELSE LET c == p[Len(p)]
             s == Len(p) - Len(d)
             r == Tuple([i \in 1..(Len(p) - 1) |-> p[i] - c * Coef(d, i - s)])
         IN  PolyQuo(r, d) \o <<c>>

\* remainder of p by the monic polynomial b, as Len(b) - 1 coefficients
RECURSIVE PolyMod(_, _)
PolyMod(p, b) ==
    IF Len(p) < Len(b)
    THEN Tuple([i \in 1..(Len(b) - 1) |-> Coef(p, i)])
    ELSE LET c == p[Len(p)]
             s == Len(p) - Len(b)
         IN  PolyMod(Tuple([i \in 1..(Len(p) - 1) |-> p[i] - c * Coef(b, i - s)]), b)

\* q(x^p)
Inflate(q, p) ==
    Tuple([i \in 1..((Len(q) - 1) * p + 1) |->
             IF (i - 1) % p = 0 THEN q[(i - 1) \div p + 1] ELSE 0])

\* the least prime factor of n >= 2
LeastPrime(n) == CHOOSE p \in 2..n : n % p = 0 /\ \A q \in 2..(p - 1) : n % q # 0

\* IntPolynomial.cyclotomic(n) for n >= 1, the n-th cyclotomic polynomial:
\* with p a prime factor of n and r = n / p, it is Phi_r(x^p) when p divides
\* r and Phi_r(x^p) / Phi_r(x) otherwise
RECURSIVE Cyclotomic(_)
Cyclotomic(n) ==
    IF n = 1 THEN <<-1, 1>>
    ELSE LET p == LeastPrime(n)
             r == n \div p
             c == Cyclotomic(r)
         IN  IF r % p = 0 THEN Inflate(c, p) ELSE PolyQuo(Inflate(c, p), c)

(***************************************************************************)
(* AlgebraicInteger: an element of Z[x]/(b), kept as the Len(b) - 1         *)
(* coefficients of its remainder modulo the base polynomial b.             *)
(***************************************************************************)
\* aint(b, n) for an integer n
AintInt(b, n) == PolyMod(<<n>>, b)

\* aint(b, z) for a coefficient list z, z[1] the coefficient of x^0
AintVec(b, z) == PolyMod(z, b)

AddE(a, c) == Tuple([i \in 1..Len(a) |-> a[i] + c[i]])

NegE(a) == Tuple([i \in 1..Len(a) |-> -a[i]])

MulE(b, a, c) == PolyMod(PolyMul(a, c), b)

\* a != 0
NonZeroE(a) == \E i \in 1..Len(a) : a[i] # 0

\* a.p, the rational-integer part of a
ProjE(a) == Coef(a, 1)

RECURSIVE SumE(_, _)
SumE(b, s) == IF s = <<>> THEN AintInt(b, 0) ELSE AddE(Head(s), SumE(b, Tail(s)))

(***************************************************************************)
(* numpy.dot on object arrays, as Matrix.__mul__ calls it.  The result is  *)
(* [ok |-> FALSE] when numpy raises ValueError (shapes not aligned).       *)
(***************************************************************************)
\* np.dot(A, B) for two 2-d arrays
NpDotMatrix(b, A, B) ==
    IF Len(A[1]) # Len(B) THEN [ok |-> FALSE, val |-> <<>>]
    ELSE [ok |-> TRUE,
          val |-> [i \in 1..Len(A) |-> [j \in 1..Len(B[1]) |->
                     SumE(b, [t \in 1..Len(B) |-> MulE(b, A[i][t], B[t][j])])]]]

\* np.dot(A, v) for a list v: a flat list is a 1-d array, a list of equal
\* 2-d blocks is a 3-d array, whose second-to-last axis numpy aligns with
\* the last axis of A
NpDotList(b, A, v) ==
    IF v.shape = "flat"
    THEN IF Len(v.items) # Len(A[1]) THEN [ok |-> FALSE, val |-> <<>>]
         ELSE [ok |-> TRUE,
               val |-> [i \in 1..Len(A) |->
                          SumE(b, [t \in 1..Len(A[1]) |-> MulE(b, A[i][t], v.items[t].v)])]]
    ELSE IF v.items = <<>> \/ Len(v.items[1]) # Len(A[1]) THEN [ok |-> FALSE, val |-> <<>>]
         ELSE [ok |-> TRUE,
               val |-> [i \in 1..Len(A) |-> [n \in 1..Len(v.items) |->
                          [c \in 1..Len(v.items[n][1]) |->
                             SumE(b, [t \in 1..Len(A[1]) |->
                                        MulE(b, A[i][t], v.items[n][t][c])])]]]]

\* all(isinstance(x, aint) for x in other) for a list
AllAint(v) == v.shape = "flat" /\ \A n \in 1..Len(v.items) : v.items[n].aint

(***************************************************************************)
(* Matrix.is_identity                                                      *)
(***************************************************************************)
\* the inner loop, for j in range(i): TRUE when it found an entry != 0
RECURSIVE LowerNonZero(_, _, _)
LowerNonZero(G, i, j) ==
    IF j >= i THEN FALSE
    ELSE IF NonZeroE(G[i + 1][j + 1]) THEN TRUE
    ELSE LowerNonZero(G, i, j + 1)

\* the outer loop, for i in range(dim)
RECURSIVE IsIdentityFrom(_, _, _)
IsIdentityFrom(G, dim, i) ==
    IF i >= dim THEN TRUE
    ELSE IF ProjE(G[i + 1][i + 1]) # 1 THEN FALSE
    ELSE IF LowerNonZero(G, i, 0) THEN FALSE
    ELSE IsIdentityFrom(G, dim, i + 1)

\* an identity test that scans both triangles
is_identity_both_triangles(G, dim) ==
    \A i \in 1..dim :
        /\ ProjE(G[i][i]) = 1
        /\ \A j \in (1..dim) \ {i} : ~NonZeroE(G[i][j])

is_identity(G, dim) == IsIdentityFrom(G, dim, 0)

(***************************************************************************)
(* Matrix.cartan_matrix                                                    *)
(***************************************************************************)
\* the pairs (i, j) visited by "for i in range(dim): for j in range(i)"
RECURSIVE RowPairs(_, _)
RowPairs(i, j) == IF j >= i THEN <<>> ELSE <<(<<i, j>>)>> \o RowPairs(i, j + 1)

RECURSIVE PairsFrom(_, _)
PairsFrom(dim, i) == IF i >= dim THEN <<>> ELSE RowPairs(i, 0) \o PairsFrom(dim, i + 1)

Pairs(dim) == PairsFrom(dim, 0)

\* the first loop: m = lcm(m, 2 * M[i][j]) over every visited pair
RECURSIVE FoldIndex(_, _, _)
FoldIndex(M, m, ps) ==
    IF ps = <<>> THEN m
    ELSE LET i == Head(ps)[1]
             j == Head(ps)[2]
         IN  FoldIndex(M, Lcm(m, 2 * M[i + 1][j + 1]), Tail(ps))

CartanIndex(M) == FoldIndex(M, 2, Pairs(Len(M)))

\* z[p] = v on a Python list z: p counts from the end when negative and
\* raises IndexError outside -len(z) .. len(z) - 1
ListSet(z, p, v) ==
    LET n == Len(z)
        q == IF p < 0 THEN p + n ELSE p
    IN  IF q < 0 \/ q >= n THEN [ok |-> FALSE, z |-> z]
        ELSE [ok |-> TRUE, z |-> [z EXCEPT ![q + 1] = v]]

\* the two writes z[m // mij2] = -1 and z[m - m // mij2] = -1 into [0] * m
ZetaVector(m, mij2) ==
    LET z0 == [n \in 1..m |-> 0]
        w1 == ListSet(z0, m \div mij2, -1)
        w2 == ListSet(w1.z, m - m \div mij2, -1)
    IN  IF ~w1.ok THEN w1 ELSE w2

\* the third loop: fills C[i][j] and C[j][i] pair by pair; log keeps, for
\* every pair of finite order the loop reached, the list length and the two
\* positions it wrote to
RECURSIVE FillPairs(_, _, _, _, _, _)
FillPairs(M, m, b, C, ps, log) ==
    IF ps = <<>> THEN [outcome |-> "ok", grid |-> C, log |-> log]
    ELSE LET i == Head(ps)[1]
             j == Head(ps)[2]
             mij2 == 2 * M[i + 1][j + 1]
         IN  IF mij2 > 0
             THEN LET w == ZetaVector(m, mij2)
                      e == [i |-> i, j |-> j, len |-> m,
                            p1 |-> m \div mij2, p2 |-> m - m \div mij2]
                      zeta == AintVec(b, w.z)
                  IN  IF ~w.ok
                      THEN [outcome |-> "IndexError", grid |-> <<>>, log |-> Append(log, e)]
                      ELSE FillPairs(M, m, b,
                                     [C EXCEPT ![i + 1][j + 1] = zeta, ![j + 1][i + 1] = zeta],
                                     Tail(ps), Append(log, e))
             ELSE FillPairs(M, m, b,
                            [C EXCEPT ![i + 1][j + 1] = AintInt(b, -2),
                                      ![j + 1][i + 1] = AintInt(b, -2)],
                            Tail(ps), log)

\* the second loop: C[i][i] = aint(b, 2) on np.zeros_like(M)
CartanDiagonal(b, dim) ==
    [i \in 1..dim |-> [j \in 1..dim |-> IF i = j THEN AintInt(b, 2) ELSE AintInt(b, 0)]]

\* cartan_matrix(M) from "C = np.zeros_like(M)" on, b the polynomial that
\* intpoly.cyclotomic(m) returned
CartanFill(M, m, b) == FillPairs(M, m, b, CartanDiagonal(b, Len(M)), Pairs(Len(M)), <<>>)

\* what intpoly.cyclotomic(m) does: the m-th cyclotomic polynomial for
\* m >= 1.  No polynomial has the primitive 0-th roots of unity as roots:
\* at m = 0 the call may raise, or return a polynomial of its own choosing
ZeroIndexPolys == {Cyclotomic(1), Cyclotomic(2)}

CyclotomicOutcomes(m) ==
    IF m >= 1 THEN {[raised |-> FALSE, poly |-> Cyclotomic(m)]}
    ELSE {[raised |-> TRUE, poly |-> <<>>]}
         \cup {[raised |-> FALSE, poly |-> p] : p \in ZeroIndexPolys}

(***************************************************************************)
(* Matrix.reflection_matrix                                                *)
(***************************************************************************)
\* ReflectionEntry with row k copied from C unnegated
ReflectionEntryNoNeg(b, C, k, i, j) ==
    IF j = k
    THEN IF i = k THEN AintInt(b, -1) ELSE AintInt(b, 0)
    ELSE IF i = j THEN AintInt(b, 1)
         ELSE IF i = k THEN C[k + 1][j + 1]
         ELSE AintInt(b, 0)

\* ReflectionEntry with R[k][k] = 1
ReflectionEntryNoFlip(b, C, k, i, j) ==
    IF j = k
    THEN IF i = k THEN AintInt(b, 1) ELSE AintInt(b, 0)
    ELSE IF i = j THEN AintInt(b, 1)
         ELSE IF i = k THEN NegE(C[k + 1][j + 1])
         ELSE AintInt(b, 0)

\* R[i][j] as the two nested loops assign it (i, j, k as in the source)
ReflectionEntry(b, C, k, i, j) ==
    IF j = k
    THEN IF i = k THEN AintInt(b, -1) ELSE AintInt(b, 0)
    ELSE IF i = j THEN AintInt(b, 1)
         ELSE IF i = k THEN NegE(C[k + 1][j + 1])
         ELSE AintInt(b, 0)

reflection_matrix(b, C, dim, k) ==
    [i \in 1..dim |-> [j \in 1..dim |-> ReflectionEntry(b, C, k, i - 1, j - 1)]]

(***************************************************************************)
(* Inputs.                                                                 *)
(***************************************************************************)
\* largest dimension of a Coxeter matrix handed to cartan_matrix
MaxDim == 3

\* the orders a pair of generators takes: 0 (infinite), 2 and 3
CoxOrders == {0, 2, 3}

\* index of the pair (i, j), j < i, among the pairs below the diagonal
PairIndex(i, j) == (i * (i - 1)) \div 2 + j + 1

SymMatrix(d, f) ==
    [i \in 1..d |-> [j \in 1..d |->
        IF i = j THEN 1
        ELSE IF j < i THEN f[PairIndex(i - 1, j - 1)] ELSE f[PairIndex(j - 1, i - 1)]]]

\* the Coxeter matrix of the source's test() and of the spec's scenario 1
Scenario1 == <<(<<1, 3, 2>>), (<<3, 1, 7>>), (<<2, 7, 1>>)>>

CoxeterInputs ==
    {Scenario1} \cup
    UNION {{SymMatrix(d, f) : f \in [1..((d * (d - 1)) \div 2) -> CoxOrders]} : d \in 1..MaxDim}

\* the indices k handed to reflection_matrix, in and out of range
KRange == (-1)..MaxDim

NoHow == [op |-> "none", x |-> 0, y |-> 0, k |-> 0]

NoCall ==
    [op |-> "none", outcome |-> "none", sym |-> <<>>, x |-> 0, y |-> 0, k |-> 0,
     vec |-> [shape |-> "flat", items |-> <<>>], new |-> 0, flag |-> FALSE,
     out |-> <<>>, m |-> -1, log |-> <<>>]

ErrorOutcomes == {"TypeError", "ValueError", "IndexError", "ExternalError"}

(***************************************************************************)
(* Matrix.__init__: the object keeps a reference to the array it is given. *)
(***************************************************************************)
MatrixInit(b, g, grid, how) == [base |-> b, M |-> g, dim |-> Len(grid), how |-> how]

\* a call that returns a new Matrix over a fresh array
ReturnMatrix(b, grid, how, call) ==
    /\ grids' = Append(grids, grid)
    /\ mats' = Append(mats, MatrixInit(b, Len(grids) + 1, grid, how))
    /\ last' = [call EXCEPT !.outcome = "ok", !.new = Len(mats) + 1]

\* a call that raises, or returns something that is no Matrix
ReturnOther(call) ==
    /\ last' = call
    /\ UNCHANGED <<grids, mats>>

(***************************************************************************)
(* The operations.                                                         *)
(***************************************************************************)
CartanMatrix(M) ==
    LET m == CartanIndex(M)
        call == [NoCall EXCEPT !.op = "cartan_matrix", !.sym = M, !.m = m]
    IN  \E ext \in CyclotomicOutcomes(m) :
            IF ext.raised
            THEN ReturnOther([call EXCEPT !.outcome = "ExternalError"])
            ELSE LET r == CartanFill(M, m, ext.poly)
                 IN  IF r.outcome = "ok"
                     THEN ReturnMatrix(ext.poly, r.grid,
                                       [NoHow EXCEPT !.op = "cartan_matrix"],
                                       [call EXCEPT !.log = r.log])
                     ELSE ReturnOther([call EXCEPT !.outcome = r.outcome, !.log = r.log])

ReflectionMatrix(x, k) ==
    LET C == mats[x]
        R == reflection_matrix(C.base, grids[C.M], C.dim, k)
    IN  ReturnMatrix(C.base, R,
                     [NoHow EXCEPT !.op = "reflection_matrix", !.x = x, !.k = k],
                     [NoCall EXCEPT !.op = "reflection_matrix", !.x = x, !.k = k])

\* a test of line 32 that looks at the class of other only
SameBaseUnchecked(a, c) == TRUE

\* the test of line 32, for other a Matrix
SameBase(a, c) == a.base = c.base

\* self * other for other a Matrix.  With another base the else branch
\* runs: iterating other yields rows, which are no algebraic integers, so
\* len(other) is evaluated, and Matrix defines no __len__
Mul(x, y) ==
    LET a == mats[x]
        c == mats[y]
        call == [NoCall EXCEPT !.op = "mul", !.x = x, !.y = y]
    IN  IF SameBase(a, c)
        THEN LET r == NpDotMatrix(a.base, grids[a.M], grids[c.M])
             IN  IF r.ok
                 THEN ReturnMatrix(a.base, r.val,
                                   [NoHow EXCEPT !.op = "mul", !.x = x, !.y = y], call)
                 ELSE ReturnOther([call EXCEPT !.outcome = "ValueError"])
        ELSE ReturnOther([call EXCEPT !.outcome = "TypeError"])

\* the test of line 35, for other a list
ListRejected(v, dim) == ~AllAint(v) /\ Len(v.items) = dim

\* self * other for other a list
MulList(x, v) ==
    LET a == mats[x]
        call == [NoCall EXCEPT !.op = "mul_list", !.x = x, !.vec = v]
    IN  IF ListRejected(v, a.dim)
        THEN ReturnOther([call EXCEPT !.outcome = "TypeError"])
        ELSE LET r == NpDotList(a.base, grids[a.M], v)
             IN  IF r.ok
                 THEN ReturnOther([call EXCEPT !.outcome = "ok", !.out = r.val])
                 ELSE ReturnOther([call EXCEPT !.outcome = "ValueError"])

IsIdentity(x) ==
    ReturnOther([NoCall EXCEPT !.op = "is_identity", !.x = x, !.outcome = "ok",
                               !.flag = is_identity(grids[mats[x].M], mats[x].dim)])

\* Matrix(b, grid): the constructor, on an array the caller built
Construct(b, grid) ==
    ReturnMatrix(b, grid, [NoHow EXCEPT !.op = "construct"],
                 [NoCall EXCEPT !.op = "construct"])

\* X[i][j] = e: row access hands out the row of self.M itself (a view of
\* the numpy array, or the inner list), and the caller assigns into it
RowSetItem(x, i, j, e) ==
    /\ grids' = [grids EXCEPT ![mats[x].M][i + 1][j + 1] = e]
    /\ last' = [NoCall EXCEPT !.op = "row_setitem", !.outcome = "ok",
                              !.x = x, !.y = i, !.k = j]
    /\ UNCHANGED mats

\* mat[i][j] = e by the caller, on the array mat it passed to Matrix(b, mat)
CallerSetItem(x, i, j, e) ==
    /\ mats[x].how.op = "construct"
    /\ grids' = [grids EXCEPT ![mats[x].M][i + 1][j + 1] = e]
    /\ last' = [NoCall EXCEPT !.op = "caller_setitem", !.outcome = "ok",
                              !.x = x, !.y = i, !.k = j]
    /\ UNCHANGED mats

(***************************************************************************)
(* The driver of the source's test(): a Cartan matrix, a reflection        *)
(* matrix built from it, a product of the two, and identity tests.         *)
(***************************************************************************)
Init == grids = <<>> /\ mats = <<>> /\ last = NoCall

Next ==
    \/ mats = <<>> /\ last.op = "none" /\ \E M \in CoxeterInputs : CartanMatrix(M)
    \/ Len(mats) = 1 /\ \E k \in KRange : ReflectionMatrix(1, k)
    \/ Len(mats) = 2 /\ \E x \in 1..2, y \in 1..2 : Mul(x, y)
    \/ \E x \in 1..Len(mats) : IsIdentity(x)

Spec == Init /\ [][Next]_vars

(***************************************************************************)
(* Matrix objects built by the constructor, and their products with        *)
(* matrices and lists.                                                     *)
(***************************************************************************)
\* largest dimension of a grid handed to the constructor
MaxGridDim == 2

\* longest list handed to the list mode of multiplication
MaxListLen == 3

\* the cyclotomic indices of the base fields: Z[i] and Z[w]
BaseIndices == {4, 6}

Bases == {Cyclotomic(n) : n \in BaseIndices}

\* the base of the first operand, Z[i]
GaussBase == Cyclotomic(4)

Zeta(b) == AintVec(b, <<0, 1>>)

\* diagonal entries: 0, 1 and 1 + zeta
DiagValues(b) == {AintInt(b, 0), AintInt(b, 1), AintVec(b, <<1, 1>>)}

Positions(d) == (1..d) \X (1..d)

\* a grid with the diagonal dg, zeta at the positions lo and up and 0
\* elsewhere
PatternGrid(b, d, dg, lo, up) ==
    [i \in 1..d |-> [j \in 1..d |->
        IF i = j THEN dg[i]
        ELSE IF <<i, j>> = lo \/ <<i, j>> = up THEN Zeta(b) ELSE AintInt(b, 0)]]

\* any diagonal, at most one non-zero entry below it and at most one above
PatternGrids(b) ==
    UNION {{PatternGrid(b, d, dg, lo, up) :
                dg \in [1..d -> DiagValues(b)],
                lo \in {<<0, 0>>} \cup {q \in Positions(d) : q[1] > q[2]},
                up \in {<<0, 0>>} \cup {q \in Positions(d) : q[1] < q[2]}} :
           d \in 1..MaxGridDim}

IdentityGrid(b, d) == PatternGrid(b, d, [i \in 1..d |-> AintInt(b, 1)], <<0, 0>>, <<0, 0>>)

AintItem(b) == [aint |-> TRUE, v |-> AintVec(b, <<1, 1>>)]

\* a plain integer, which is no algebraic integer
IntItem == [aint |-> FALSE, v |-> <<>>]

\* flat lists of algebraic integers, with at most one plain integer among
\* them, and lists of n blocks of p rows and one column
ListInputs(b) ==
    UNION {{[shape |-> "flat",
             items |-> [t \in 1..n |-> IF t = bad THEN IntItem ELSE AintItem(b)]] :
                bad \in 0..n} : n \in 0..MaxListLen}
    \cup {[shape |-> "nested",
           items |-> [t \in 1..n |-> [r \in 1..p |-> <<AintInt(b, 1)>>]]] :
                n \in 1..MaxListLen, p \in 1..MaxGridDim}

NextMatrix ==
    \/ mats = <<>> /\ \E g \in PatternGrids(GaussBase) : Construct(GaussBase, g)
    \/ Len(mats) = 1 /\ \E b \in Bases, d \in 1..MaxGridDim : Construct(b, IdentityGrid(b, d))
    \/ Len(mats) = 1 /\ \E v \in ListInputs(mats[1].base) : MulList(1, v)
    \/ Len(mats) = 2 /\ \E x \in 1..2, y \in 1..2 : Mul(x, y)
    \/ \E x \in 1..Len(mats) : IsIdentity(x)

SpecMatrix == Init /\ [][NextMatrix]_vars

(***************************************************************************)
(* A caller that keeps the arrays it handed over and the rows it was       *)
(* handed, and writes to them.                                             *)
(***************************************************************************)
\* most Matrix objects alive at once
MaxMats == 2

NextAlias ==
    \/ Len(mats) < MaxMats /\ \E d \in 1..2 : Construct(GaussBase, IdentityGrid(GaussBase, d))
    \/ Len(mats) < MaxMats /\ \E x \in 1..Len(mats), k \in 0..1 : ReflectionMatrix(x, k)
    \/ Len(mats) < MaxMats /\ \E x \in 1..Len(mats), y \in 1..Len(mats) : Mul(x, y)
    \/ \E x \in 1..Len(mats) : IsIdentity(x)
    \/ \E x \in 1..Len(mats) : \E i \in 0..(mats[x].dim - 1), j \in 0..(mats[x].dim - 1) :
           \E e \in {AintInt(GaussBase, 0), AintInt(GaussBase, 1)} : RowSetItem(x, i, j, e)
    \/ \E x \in 1..Len(mats) : \E i \in 0..(mats[x].dim - 1), j \in 0..(mats[x].dim - 1) :
           \E e \in {AintInt(GaussBase, 0), AintInt(GaussBase, 1)} : CallerSetItem(x, i, j, e)

SpecAlias == Init /\ [][NextAlias]_vars

(***************************************************************************)
(* Properties of cartan_matrix.                                            *)
(***************************************************************************)
RECURSIVE Product(_)
Product(S) == IF S = {} THEN 1 ELSE LET s == CHOOSE t \in S : TRUE IN s * Product(S \ {s})

\* the least positive common multiple of the positive integers in S
LeastCommonMultiple(S) ==
    CHOOSE n \in 1..Product(S) :
        /\ \A s \in S : n % s = 0
        /\ \A k \in 1..(n - 1) : \E s \in S : k % s # 0

\* the doubled finite orders of M
FiniteOrders2(M) ==
    {2 * M[q[1]][q[2]] :
        q \in {r \in (1..Len(M)) \X (1..Len(M)) : r[1] # r[2] /\ M[r[1]][r[2]] > 0}}

ClaimedIndex(M) == LeastCommonMultiple({2} \cup FiniteOrders2(M))

\* C1: the index m that cartan_matrix hands to the cyclotomic-polynomial
\* generator is the least common multiple of 2 and of 2*M[i][j] over the
\* pairs with M[i][j] > 0; pairs with M[i][j] = 0 leave it unchanged.
C1_IndexIgnoresInfiniteOrders ==
    last.op = "cartan_matrix" => last.m = ClaimedIndex(last.sym)

\* the coefficient list with -1 at positions m/k and m - m/k, 0 elsewhere
ClaimedVector(m, k) ==
    [n \in 1..m |-> IF n - 1 = m \div k \/ n - 1 = m - m \div k THEN -1 ELSE 0]

ClaimedEntry(b, M, i, j) ==
    IF i = j THEN AintInt(b, 2)
    ELSE IF M[i][j] = 0 THEN AintInt(b, -2)
    ELSE AintVec(b, ClaimedVector(ClaimedIndex(M), 2 * M[i][j]))

\* C6: cartan_matrix(M) returns a grid with 2 on the diagonal, -2 where
\* M[i][j] = 0, and where M[i][j] > 0 the element of the length-m vector
\* holding -1 at m/(2*M[i][j]) and m - m/(2*M[i][j]); stated for every
\* call in which the polynomial generator itself did not fail.
C6_CartanGridForEveryMatrix ==
    (last.op = "cartan_matrix" /\ last.outcome # "ExternalError") =>
        /\ last.outcome = "ok"
        /\ LET C == grids[mats[last.new].M]
               b == mats[last.new].base
           IN  \A i \in 1..Len(last.sym), j \in 1..Len(last.sym) :
                   C[i][j] = ClaimedEntry(b, last.sym, i, j)

\* C10: whenever cartan_matrix reaches the fill step of a pair with
\* M[i][j] > 0, m is a positive multiple of 2*M[i][j] and both write
\* positions lie in 1..m-1, so no write is out of range.
C10_FillWritesInRange ==
    last.op = "cartan_matrix" =>
        /\ last.outcome # "IndexError"
        /\ \A n \in 1..Len(last.log) :
               LET e == last.log[n]
                   k == 2 * last.sym[e.i + 1][e.j + 1]
               IN  /\ e.len > 0
                   /\ e.len % k = 0
                   /\ e.p1 \in 1..(e.len - 1)
                   /\ e.p2 \in 1..(e.len - 1)

(***************************************************************************)
(* Properties of reflection_matrix.                                        *)
(***************************************************************************)
InRange(k, dim) == 0 <= k /\ k < dim

\* the Matrix objects that reflection_matrix built with an index in range
Reflections ==
    {r \in 1..Len(mats) : /\ mats[r].how.op = "reflection_matrix"
                          /\ InRange(mats[r].how.k, mats[mats[r].how.x].dim)}

\* C3: reflection_matrix(C, k) with k outside 0 <= k < C.dim ends in an
\* error and returns no Matrix.
C3_OutOfRangeIndexRaises ==
    (last.op = "reflection_matrix" /\ ~InRange(last.k, mats[last.x].dim)) =>
        last.outcome \in ErrorOutcomes /\ last.new = 0

\* C7: for 0 <= k < C.dim, R = reflection_matrix(C, k) has R[k][k] = -1,
\* R[i][k] = 0 for i # k, and for every column j # k: R[j][j] = 1,
\* R[k][j] = -C[k][j], R[i][j] = 0 for the other rows; R has the dimension
\* and the base of C.
C7_ReflectionMatrixEntries ==
    \A r \in Reflections :
        LET C == mats[mats[r].how.x]
            G == grids[C.M]
            R == grids[mats[r].M]
            b == C.base
            k == mats[r].how.k + 1
            D == 1..C.dim
        IN  /\ mats[r].dim = C.dim
            /\ mats[r].base = C.base
            /\ Len(R) = C.dim
            /\ \A i \in D : Len(R[i]) = C.dim
            /\ R[k][k] = AintInt(b, -1)
            /\ \A i \in D \ {k} : R[i][k] = AintInt(b, 0)
            /\ \A j \in D \ {k} :
                   /\ R[j][j] = AintInt(b, 1)
                   /\ R[k][j] = NegE(G[k][j])
                   /\ \A i \in D \ {j, k} : R[i][j] = AintInt(b, 0)

\* a reflection matrix of dimension 3 whose row k holds a non-zero entry
\* off the diagonal
C7_Witness ==
    \E r \in Reflections :
        /\ mats[r].dim = 3
        /\ \E j \in 1..3 : j # mats[r].how.k + 1
                           /\ NonZeroE(grids[mats[r].M][mats[r].how.k + 1][j])

\* the products R * R of a reflection matrix R with itself
ReflectionSquares ==
    {p \in 1..Len(mats) : /\ mats[p].how.op = "mul"
                          /\ mats[p].how.x = mats[p].how.y
                          /\ mats[p].how.x \in Reflections}

\* C2: for 0 <= k < dim, reflection_matrix(C,k) * reflection_matrix(C,k)
\* is the identity matrix, 1 on the diagonal and 0 in both triangles, and
\* is_identity() on the product returns true.
C2_ReflectionIsInvolution ==
    /\ \A p \in ReflectionSquares :
           LET P == grids[mats[p].M]
               b == mats[p].base
           IN  /\ \A i \in 1..mats[p].dim, j \in 1..mats[p].dim :
                      P[i][j] = AintInt(b, IF i = j THEN 1 ELSE 0)
               /\ is_identity(P, mats[p].dim)
    /\ (last.op = "is_identity" /\ last.x \in ReflectionSquares) => last.flag

\* is_identity() has answered on a product R * R of dimension 3 whose R
\* holds a non-zero entry off the diagonal
C2_Witness ==
    /\ last.op = "is_identity"
    /\ last.x \in ReflectionSquares
    /\ last.flag
    /\ mats[last.x].dim = 3
    /\ LET r == mats[last.x].how.x
       IN  \E j \in 1..3 : j # mats[r].how.k + 1
                           /\ NonZeroE(grids[mats[r].M][mats[r].how.k + 1][j])

(***************************************************************************)
(* Properties of multiplication.                                           *)
(***************************************************************************)
\* C4: multiplying a Matrix by a sequence whose length differs from dim, or
\* that holds an element that is no FieldElement, ends in an error and
\* returns no result.
C4_BadListRaises ==
    (last.op = "mul_list"
        /\ (Len(last.vec.items) # mats[last.x].dim \/ ~AllAint(last.vec))) =>
        last.outcome \in ErrorOutcomes /\ last.out = <<>>

WithUpper(G, e) ==
    [i \in 1..Len(G) |-> [j \in 1..Len(G) |-> IF i < j THEN e ELSE G[i][j]]]

C9_MatricesNeverChange ==
    [][\A x \in 1..Len(mats) :
          /\ x <= Len(mats')
          /\ mats'[x].base = mats[x].base
          /\ mats'[x].dim = mats[x].dim
          /\ grids'[mats'[x].M] = grids[mats[x].M]]_vars
====
